---- MODULE Spec2Model ----
(***************************************************************************)
(* SAP OData MCP server: the OData client (SAPODataClient) with its        *)
(* session state and axios interceptors, and the tool handlers             *)
(* (SAPODataHandlers) that own one client at a time.                       *)
(*                                                                         *)
(* One step of the model is one awaited HTTP exchange (request sent,       *)
(* response received, interceptors run, code continues up to the next      *)
(* await) or one call of a method up to its first await.                   *)
(***************************************************************************)
EXTENDS Integers, Sequences, FiniteSets, TLC

VARIABLES
  connectArgs,\* the connection arguments this caller has: what it passes to sap_connect
  clients,    \* every SAPODataClient constructed so far: connected, csrfToken, cookies, config
  sapClient,  \* SAPODataHandlers.sapClient: index into clients, 0 = null
              \* (NoHandlers when the caller uses a client of its own, without handlers)
  tool,       \* the tool call the handler is serving, "none" when the client is called directly
  pc,         \* the await the running call is suspended at, "idle" between calls
  self,       \* the client the running method is executing on
  args,       \* arguments of the running call
  idx,        \* getServices: position in catalogPaths / commonServices
  found,      \* getServices: foundServices
  req,        \* the last request handed to the network, after the request interceptor
  nreq,       \* number of requests sent by the running (or last) call
  seen401,    \* some response of the running (or last) call had status 401
  lastResp,   \* status of the last response received by the running (or last) call
  lastData,   \* body of that response
  answered,   \* getServices: the positions in commonServices whose probe got a 2xx answer
  result,     \* what the last finished call returned or threw
  lastConnect,\* how the last sap_connect tool call ended: "none", "ok" or "failed"
  inflight    \* a queryEntitySet call that overlaps the other calls: its request
              \* while it awaits the response, then the response it received

vars == <<connectArgs, clients, sapClient, tool, pc, self, args, idx, found, req, nreq,
          seen401, lastResp, lastData, answered, result, lastConnect, inflight>>

(***************************************************************************)
(* Bounds                                                                  *)
(***************************************************************************)
MaxClients == 2
MaxRecords == 2

(***************************************************************************)
(* Values                                                                  *)
(***************************************************************************)
NULL == "null"
NoResp == 0 - 1
NoResponse == 0
NoArgs == [none |-> TRUE]
NoData == [none |-> TRUE]
baseUrl == "https://sap-host:8000/sap/opu/odata/sap/"

Tokens == {"T1", "T2"}
CsrfHeaderVals == Tokens \cup {"Required"}
\* a Set-Cookie header list; each cookie is given as its pieces between ';'
SetCookieVals ==
  { << <<"sid=1", " Path=/">>, <<"lang=en">> >> }

BaseHeaders == ("content-type" :> "application/json")
\* headers of a 2xx answer
ResponseHeaders ==
  {BaseHeaders}
    \cup {("x-csrf-token" :> t) @@ BaseHeaders : t \in CsrfHeaderVals}
    \cup {("set-cookie" :> s) @@ BaseHeaders : s \in SetCookieVals}
    \cup {("x-csrf-token" :> t) @@ ("set-cookie" :> s) @@ BaseHeaders :
            t \in {"T1", "Required"}, s \in SetCookieVals}

\* headers of an answer with an error status
ErrorHeaders ==
  {BaseHeaders}
    \cup {("x-csrf-token" :> "T2") @@ ("set-cookie" :> s) @@ BaseHeaders : s \in SetCookieVals}

Statuses == {200, 401, 403, 404, 500}

StatusText ==
  (200 :> "OK") @@ (401 :> "Unauthorized") @@ (403 :> "Forbidden")
    @@ (404 :> "Not Found") @@ (500 :> "Internal Server Error")

\* the answers the network can give to one request: no response at all, or a
\* status with headers and, on success, one of the given bodies
HttpResponses(bodies) ==
  {[status |-> NoResponse, headers |-> BaseHeaders, data |-> NoData]}
    \cup UNION {
      {[status |-> s, headers |-> h, data |-> d] :
          h \in (IF s = 200 THEN ResponseHeaders ELSE ErrorHeaders),
          d \in (IF s = 200 THEN bodies ELSE {NoData})}
      : s \in Statuses}

(***************************************************************************)
(* Strings are sequences of pieces; the pieces that the code inspects or   *)
(* encodes are single characters.                                          *)
(***************************************************************************)
RECURSIVE Concat(_)
Concat(ss) == IF ss = <<>> THEN <<>> ELSE Head(ss) \o Concat(Tail(ss))

RECURSIVE Join(_, _)
Join(ss, sep) ==
  IF ss = <<>> THEN <<>>
  ELSE IF Len(ss) = 1 THEN Head(ss)
  ELSE Head(ss) \o sep \o Join(Tail(ss), sep)

Digits == <<"0", "1", "2", "3", "4", "5", "6", "7", "8", "9">>

RECURSIVE NumberToString(_)
NumberToString(n) ==
  IF n < 10 THEN <<Digits[n + 1]>>
  ELSE NumberToString(n \div 10) \o <<Digits[(n % 10) + 1]>>

(***************************************************************************)
(* Errors                                                                  *)
(***************************************************************************)
AxiosError(response) == [isAxios |-> TRUE, status |-> response.status, message |-> <<>>]
Error(message) == [isAxios |-> FALSE, status |-> NoResponse, message |-> message]

getErrorMessage(error) ==
  IF error.isAxios /\ error.status # NoResponse
    THEN <<"HTTP ">> \o NumberToString(error.status) \o <<": ", StatusText[error.status]>>
  ELSE IF error.isAxios
    THEN <<"No response received from server">>
  ELSE IF error.message # <<>> THEN error.message ELSE <<"Unknown error">>

NotConnectedMessage == <<"Not connected to SAP OData service. Use sap_connect first.">>

Ret(v) == [kind |-> "return", msg |-> <<>>, value |-> v]
Throw(m) == [kind |-> "throw", msg |-> m, value |-> NoData]
Void == [void |-> TRUE]

(***************************************************************************)
(* SAPODataClient: construction and interceptors                           *)
(***************************************************************************)
SAPODataClient(config) ==
  [connected |-> FALSE, csrfToken |-> NULL, cookies |-> <<>>, config |-> config]

\* Cleared with a fault: the cookie list is kept
Cleared_KeepCookies(c) == [c EXCEPT !.connected = FALSE, !.csrfToken = NULL]

Cleared(c) == [c EXCEPT !.connected = FALSE, !.csrfToken = NULL, !.cookies = <<>>]

\* axios merges the instance headers with the headers of the call
Request(method, url, headers) ==
  [method |-> method, url |-> url,
   headers |-> headers @@ ("Content-Type" :> "application/json")
                       @@ ("Accept" :> "application/json")]

NoReq == [method |-> "none", url |-> <<>>, headers |-> ("Accept" :> "none")]

\* the request interceptor with a fault: the token is attached whatever the method
RequestInterceptor_TokenOnGet(c, config) ==
  LET h1 == IF c.csrfToken # NULL /\ c.csrfToken # ""
              THEN ("X-CSRF-Token" :> c.csrfToken) @@ config.headers
              ELSE config.headers
      h2 == IF Len(c.cookies) > 0
              THEN ("Cookie" :> Join([i \in 1..Len(c.cookies) |-> <<c.cookies[i]>>], <<"; ">>)) @@ h1
              ELSE h1
  IN [config EXCEPT !.headers = h2]

RequestInterceptor(c, config) ==
  LET h1 == IF c.csrfToken # NULL /\ c.csrfToken # "" /\ config.method # "get"
              THEN ("X-CSRF-Token" :> c.csrfToken) @@ config.headers
              ELSE config.headers
      h2 == IF Len(c.cookies) > 0
              THEN ("Cookie" :> Join([i \in 1..Len(c.cookies) |-> <<c.cookies[i]>>], <<"; ">>)) @@ h1
              ELSE h1
  IN [config EXCEPT !.headers = h2]

ResponseFulfilled(c, response) ==
  LET h  == response.headers
      c1 == IF "x-csrf-token" \in DOMAIN h /\ h["x-csrf-token"] # ""
                 /\ h["x-csrf-token"] # "Required"
              THEN [c EXCEPT !.csrfToken = h["x-csrf-token"]]
              ELSE c
  IN IF "set-cookie" \in DOMAIN h
       THEN [c1 EXCEPT !.cookies =
               [i \in 1..Len(h["set-cookie"]) |-> h["set-cookie"][i][1]]]
       ELSE c1

\* ResponseRejected with a fault: a 401 resets the flag only
ResponseRejected_FlagOnly(c, response) ==
  IF response.status = 401 THEN [c EXCEPT !.connected = FALSE] ELSE c

ResponseRejected(c, response) ==
  IF response.status = 401 THEN Cleared(c) ELSE c

\* one exchange as the caller of httpClient.get/post/put/delete sees it
Exchange(c, response) ==
  IF response.status \in 200..299
    THEN [ok |-> TRUE, client |-> ResponseFulfilled(c, response)]
    ELSE [ok |-> FALSE, client |-> ResponseRejected(c, response)]

(***************************************************************************)
(* URL encoding                                                            *)
(***************************************************************************)
\* code points 32..126; the three characters the parser cannot quote are named
AsciiPrintable ==
  <<" ", "!", "DQUOTE", "#", "$", "%", "&", "'", "(", ")", "*", "+", ",", "-", ".", "/",
    "0", "1", "2", "3", "4", "5", "6", "7", "8", "9", ":", ";", "<", "=", ">", "?",
    "@", "A", "B", "C", "D", "E", "F", "G", "H", "I", "J", "K", "L", "M", "N", "O",
    "P", "Q", "R", "S", "T", "U", "V", "W", "X", "Y", "Z", "[", "BACKSLASH", "]", "^", "_",
    "BACKTICK", "a", "b", "c", "d", "e", "f", "g", "h", "i", "j", "k", "l", "m", "n", "o",
    "p", "q", "r", "s", "t", "u", "v", "w", "x", "y", "z", "{", "|", "}", "~">>

CharCode(ch) == 31 + (CHOOSE i \in 1..Len(AsciiPrintable) : AsciiPrintable[i] = ch)

HexDigits == <<"0", "1", "2", "3", "4", "5", "6", "7", "8", "9", "A", "B", "C", "D", "E", "F">>

PercentEncode(ch) ==
  <<"%", HexDigits[(CharCode(ch) \div 16) + 1], HexDigits[(CharCode(ch) % 16) + 1]>>

AlphaNum == {AsciiPrintable[i] : i \in (17..26) \cup (34..59) \cup (66..91)}

\* URLSearchParams.toString(): application/x-www-form-urlencoded serializer
FormSafe == AlphaNum \cup {"*", "-", ".", "_"}

\* FormEncode with a fault: the space is percent-encoded like any other character
FormEncode_SpaceAsPercent20(s) ==
  Concat([i \in 1..Len(s) |->
            IF s[i] \in FormSafe THEN <<s[i]>> ELSE PercentEncode(s[i])])

FormEncode(s) ==
  Concat([i \in 1..Len(s) |->
            IF s[i] = " " THEN <<"+">>
            ELSE IF s[i] \in FormSafe THEN <<s[i]>>
            ELSE PercentEncode(s[i])])

\* params is the list of name/value pairs in append order
URLSearchParamsToString(params) ==
  Join([i \in 1..Len(params) |->
          FormEncode(params[i][1]) \o <<"=">> \o FormEncode(params[i][2])], <<"&">>)

UriUnreserved == AlphaNum \cup {"-", "_", ".", "!", "~", "*", "'", "(", ")"}

encodeURIComponent(s) ==
  Concat([i \in 1..Len(s) |->
            IF s[i] \in UriUnreserved THEN <<s[i]>> ELSE PercentEncode(s[i])])

(***************************************************************************)
(* SAPODataClient: URL construction of the data operations                 *)
(***************************************************************************)
Has(o, k) == k \in DOMAIN o

\* the six conditional params.append calls of queryEntitySet, in source order
QueryParams(options) ==
  (IF Has(options, "select") /\ Len(options["select"]) > 0
     THEN << << <<"$", "s", "e", "l", "e", "c", "t">>, Join(options["select"], <<",">>) >> >>
     ELSE <<>>)
  \o (IF Has(options, "filter") /\ options["filter"] # <<>>
     THEN << << <<"$", "f", "i", "l", "t", "e", "r">>, options["filter"] >> >>
     ELSE <<>>)
  \o (IF Has(options, "orderby") /\ options["orderby"] # <<>>
     THEN << << <<"$", "o", "r", "d", "e", "r", "b", "y">>, options["orderby"] >> >>
     ELSE <<>>)
  \o (IF Has(options, "top") /\ options["top"] # 0
     THEN << << <<"$", "t", "o", "p">>, NumberToString(options["top"]) >> >>
     ELSE <<>>)
  \o (IF Has(options, "skip") /\ options["skip"] # 0
     THEN << << <<"$", "s", "k", "i", "p">>, NumberToString(options["skip"]) >> >>
     ELSE <<>>)
  \o (IF Has(options, "expand") /\ Len(options["expand"]) > 0
     THEN << << <<"$", "e", "x", "p", "a", "n", "d">>, Join(options["expand"], <<",">>) >> >>
     ELSE <<>>)

WithQuery(path, params) ==
  LET qs == URLSearchParamsToString(params)
  IN path \o (IF qs # <<>> THEN <<"?">> \o qs ELSE <<>>)

queryEntitySetUrl(serviceName, entitySet, options) ==
  WithQuery(serviceName \o <<"/">> \o entitySet, QueryParams(options))

\* keyString with a fault: the values are not encoded
keyString_Unencoded(keyValues) ==
  Join([i \in 1..Len(keyValues) |->
          keyValues[i][1] \o <<"=", "'">> \o keyValues[i][2] \o <<"'">>],
       <<",">>)

keyString(keyValues) ==
  Join([i \in 1..Len(keyValues) |->
          keyValues[i][1] \o <<"=", "'">> \o encodeURIComponent(keyValues[i][2]) \o <<"'">>],
       <<",">>)

entityUrl(serviceName, entitySet, keyValues) ==
  serviceName \o <<"/">> \o entitySet \o <<"(">> \o keyString(keyValues) \o <<")">>

callFunctionUrl(serviceName, functionName, parameters) ==
  WithQuery(serviceName \o <<"/">> \o functionName, parameters)

(***************************************************************************)
(* SAPODataClient.getServices: candidates and result mapping               *)
(***************************************************************************)
catalogPaths ==
  <<"../iwfnd/catalogservice;v=2/ServiceCollection",
    "../IWFND/CATALOGSERVICE;v=2/ServiceCollection",
    "../iwfnd/catalogservice/ServiceCollection",
    "../IWFND/CATALOGSERVICE/ServiceCollection">>

commonServices ==
  <<"GWSAMPLE_BASIC", "GWDEMO", "RMTSAMPLEFLIGHT", "API_MATERIAL_SRV",
    "API_BUSINESS_PARTNER", "API_SALES_ORDER_SRV", "ZMM_MATERIAL_SRV",
    "ZSD_SALES_SRV", "ZFI_GL_SRV">>

\* records of a catalog answer; an empty Title is falsy
CatalogRecords ==
  { [ID |-> "ZSVC_A", Title |-> "", Version |-> "1"],
    [ID |-> "ZSVC_B", Title |-> "Service B", Version |-> "2"] }

RecordSeqs == UNION {[1..n -> CatalogRecords] : n \in 0..MaxRecords}

\* bodies of a 2xx answer of a catalog path: with d.results, with d but no
\* results, without d
CatalogBodies ==
  {("d" :> ("results" :> rs)) : rs \in RecordSeqs}
    \cup {("d" :> ("EntitySets" :> <<>>)), ("html" :> <<>>)}

ServiceDescriptor(service) ==
  [name |-> service.ID,
   title |-> IF service.Title # "" THEN service.Title ELSE service.ID,
   version |-> service.Version,
   url |-> <<baseUrl, service.ID, "/">>]

\* CatalogServices with a fault: the first record is lost
CatalogServices_SkipFirst(data) ==
  [i \in 1..(Len(data["d"]["results"]) - 1) |-> ServiceDescriptor(data["d"]["results"][i + 1])]

CatalogServices(data) ==
  [i \in 1..Len(data["d"]["results"]) |-> ServiceDescriptor(data["d"]["results"][i])]

FoundService(serviceName) ==
  [name |-> serviceName, title |-> serviceName, url |-> <<baseUrl, serviceName, "/">>]

\* NoneFoundMessage with a fault: the hint is empty
NoneFoundMessage_Empty == <<>>

NoneFoundMessage ==
  <<"No services found. The base URL exists but specific services need to be discovered through SAP GUI or by testing known service names.">>

(***************************************************************************)
(* SAPODataClient.getServiceMetadata: parsing and extraction               *)
(***************************************************************************)
\* a metadata answer: whether xml2js accepts it, and the Schema[0] node of
\* the parsed tree when the path edmx:Edmx/edmx:DataServices[0]/Schema[0] exists
MetadataDocs ==
  { [wellFormed |-> FALSE, parsed |-> ("none" :> TRUE)],
    [wellFormed |-> TRUE, parsed |-> ("html" :> TRUE)],
    [wellFormed |-> TRUE, parsed |-> ("Schema" :>
        ( ("EntityType" :> <<
             ("$" :> ("Name" :> "Product"))
               @@ ("Property" :> <<
                     ("$" :> (("Name" :> "ID") @@ ("Type" :> "Edm.String") @@ ("Nullable" :> "false"))),
                     ("$" :> (("Name" :> "Name") @@ ("Type" :> "Edm.String"))),
                     ("$" :> (("Name" :> "Price") @@ ("Type" :> "Edm.Decimal") @@ ("Nullable" :> "true"))),
                     ("$" :> (("Name" :> "Stock") @@ ("Type" :> "Edm.Int32") @@ ("Nullable" :> "False"))) >>) >>)
          @@ ("EntityContainer" :> <<
                ("FunctionImport" :> << ("$" :> (("Name" :> "Confirm") @@ ("ReturnType" :> "Edm.Boolean"))),
                                        ("$" :> ("Name" :> "Reset")) >>) >>) ))],
    [wellFormed |-> TRUE, parsed |-> ("Schema" :> ("EntityType" :> << ("Property" :> <<>>) >>))] }

Attr(node, name) == IF Has(node["$"], name) THEN node["$"][name] ELSE "undefined"

\* IsNullable with a fault: a property is nullable only when marked "true"
IsNullable_OnlyWhenTrue(prop) == Attr(prop, "Nullable") = "true"

\* nullable: prop.$.Nullable !== 'false'
IsNullable(prop) == Attr(prop, "Nullable") # "false"

extractMetadata(parsed) ==
  IF ~Has(parsed, "Schema") THEN [entities |-> <<>>, functions |-> <<>>]
  ELSE
    LET schema == parsed["Schema"]
        entityTypes == IF Has(schema, "EntityType") THEN schema["EntityType"] ELSE <<>>
        functionImports ==
          IF Has(schema, "EntityContainer") /\ Has(schema["EntityContainer"][1], "FunctionImport")
            THEN schema["EntityContainer"][1]["FunctionImport"] ELSE <<>>
        Properties(entity) == IF Has(entity, "Property") THEN entity["Property"] ELSE <<>>
        \* entity.$.Name, prop.$.Name, func.$.Name throw a TypeError when $ is missing
        throws ==
          \/ \E i \in 1..Len(entityTypes) :
               \/ ~Has(entityTypes[i], "$")
               \/ \E j \in 1..Len(Properties(entityTypes[i])) :
                    ~Has(Properties(entityTypes[i])[j], "$")
          \/ \E i \in 1..Len(functionImports) : ~Has(functionImports[i], "$")
    IN IF throws THEN [entities |-> <<>>, functions |-> <<>>, raw |-> parsed]
       ELSE
         [entities |->
            [i \in 1..Len(entityTypes) |->
               [name |-> Attr(entityTypes[i], "Name"),
                properties |->
                  [j \in 1..Len(Properties(entityTypes[i])) |->
                     LET prop == Properties(entityTypes[i])[j]
                     IN [name |-> Attr(prop, "Name"),
                         type |-> Attr(prop, "Type"),
                         nullable |-> IsNullable(prop)]]]],
          functions |->
            [i \in 1..Len(functionImports) |->
               [name |-> Attr(functionImports[i], "Name"),
                returnType |-> Attr(functionImports[i], "ReturnType")]]]

(***************************************************************************)
(* Inputs of the calls                                                     *)
(***************************************************************************)
ServiceNames == {<<"GWSAMPLE_BASIC">>}
EntitySets == {<<"ProductSet">>}
FunctionNames == {<<"Confirm">>}

PriceGt10 == <<"P", "r", "i", "c", "e", " ", "g", "t", " ", "1", "0">>

QueryOptions ==
  { ("top" :> 5) @@ ("filter" :> PriceGt10),
    ("select" :> << <<"I", "D">>, <<"N", "a", "m", "e">> >>)
       @@ ("orderby" :> <<"N", "a", "m", "e", " ", "d", "e", "s", "c">>)
       @@ ("skip" :> 10) @@ ("expand" :> << <<"I", "t", "e", "m", "s">> >>),
    ("top" :> 0) @@ ("filter" :> <<>>) @@ ("select" :> <<>>),
    ("none" :> TRUE) }

KeyValues ==
  { << << <<"I", "D">>, <<"4", "2">> >> >>,
    << << <<"I", "D">>, <<"A", " ", "1">> >>, << <<"K">>, <<"x", "/", "y">> >> >> }

FunctionParameters == { <<>>, << << <<"I", "D">>, <<"4", "2">> >> >> }

EntityData == { ("Name" :> "Widget") }
DataBodies == { ("d" :> ("results" :> <<>>)), ("value" :> <<>>) }

\* sap_connect arguments that pass validation: enableCSRF left to its default,
\* enableCSRF false
ConnectArgs ==
  { ("baseUrl" :> baseUrl) @@ ("username" :> "u") @@ ("password" :> "p"),
    ("baseUrl" :> baseUrl) @@ ("username" :> "u") @@ ("password" :> "p")
       @@ ("enableCSRF" :> FALSE) }

\* the same arguments with the required password left out
WithoutPassword(a) == [k \in DOMAIN a \ {"password"} |-> a[k]]

\* SAPODataConfigSchema.parse
SAPODataConfigSchema(a) ==
  IF Has(a, "baseUrl") /\ Has(a, "username") /\ Has(a, "password")
    THEN Ret([baseUrl |-> a["baseUrl"],
              enableCSRF |-> IF Has(a, "enableCSRF") THEN a["enableCSRF"] ELSE TRUE])
    ELSE Throw(<<"ZodError: Required">>)

\* the answers to a request, by what a 2xx answer to it can carry
PlainResponses == HttpResponses({NoData})
CatalogResponses == HttpResponses(CatalogBodies)
MetadataResponses == HttpResponses(MetadataDocs)
DataResponses == HttpResponses(DataBodies)

(***************************************************************************)
(* SAPODataClient: the synchronous prefix of each method, up to its first  *)
(* await                                                                   *)
(***************************************************************************)
DataMethods ==
  {"getServices", "getServiceMetadata", "queryEntitySet", "getEntity",
   "createEntity", "updateEntity", "deleteEntity", "callFunction"}

FirstAwait ==
  [m \in DataMethods |->
     IF m = "getServices" THEN "getServices_catalog" ELSE m]

getConnectionInfo(c) ==
  [connected |-> c.connected,
   baseUrl |-> c.config.baseUrl,
   enableCSRF |-> c.config.enableCSRF,
   hasCSRFToken |-> (c.csrfToken # NULL /\ c.csrfToken # "")]

\* ensureConnected with a fault: it never throws
ensureConnected_Never(c) == TRUE

ensureConnected(c) == c.connected

Running(c, label) == [done |-> FALSE, pc |-> label, client |-> c, out |-> Ret(Void)]
Finished(c, out) == [done |-> TRUE, pc |-> "idle", client |-> c, out |-> out]

\* isConnected with a fault: the probe is sent whatever the connected flag
isConnectedStart_AlwaysProbes(c) == Running(c, "isConnected")

\* isConnected: if (!this.connected) return false, before the probe
isConnectedStart(c) ==
  IF ~c.connected THEN Finished(c, Ret([bool |-> FALSE]))
  ELSE Running(c, "isConnected")

Invoke(m, c) ==
  CASE m = "connect" ->
         Running(c, IF c.config.enableCSRF THEN "fetchCSRFToken" ELSE "connect_catalog")
    [] m = "disconnect" -> Finished(Cleared(c), Ret(Void))
    [] m = "isConnected" -> isConnectedStart(c)
    [] m = "getConnectionInfo" -> Finished(c, Ret(getConnectionInfo(c)))
    [] OTHER ->
         IF ~ensureConnected(c) THEN Finished(c, Throw(NotConnectedMessage))
         ELSE Running(c, FirstAwait[m])

(***************************************************************************)
(* SAPODataHandlers: what each handler does with the outcome of the client *)
(* method it awaited                                                       *)
(***************************************************************************)
DataTools ==
  {"handleGetServices", "handleGetServiceMetadata", "handleQueryEntitySet",
   "handleGetEntity", "handleCreateEntity", "handleUpdateEntity",
   "handleDeleteEntity", "handleCallFunction"}

MethodOf ==
  [t \in DataTools |->
     CASE t = "handleGetServices" -> "getServices"
       [] t = "handleGetServiceMetadata" -> "getServiceMetadata"
       [] t = "handleQueryEntitySet" -> "queryEntitySet"
       [] t = "handleGetEntity" -> "getEntity"
       [] t = "handleCreateEntity" -> "createEntity"
       [] t = "handleUpdateEntity" -> "updateEntity"
       [] t = "handleDeleteEntity" -> "deleteEntity"
       [] t = "handleCallFunction" -> "callFunction"]

FailurePrefix(m, a) ==
  CASE m = "getServices" -> <<"Failed to get OData services: ">>
    [] m = "getServiceMetadata" -> <<"Failed to get service metadata: ">>
    [] m = "queryEntitySet" -> <<"Failed to query entity set ">> \o a.entitySet \o <<": ">>
    [] m = "getEntity" -> <<"Failed to get entity: ">>
    [] m = "createEntity" -> <<"Failed to create entity: ">>
    [] m = "updateEntity" -> <<"Failed to update entity: ">>
    [] m = "deleteEntity" -> <<"Failed to delete entity: ">>
    [] m = "callFunction" -> <<"Failed to call function ">> \o a.functionName \o <<": ">>

ConnectionLostMessage == <<"SAP OData connection lost. Please reconnect using sap_connect.">>
ConnectFailedPrefix == <<"Failed to connect to SAP OData service: ">>

Includes404(msg) ==
  \E i \in 1..(Len(msg) - 2) : msg[i] = "4" /\ msg[i + 1] = "0" /\ msg[i + 2] = "4"

\* the catch block of handleConnect
handleConnectCatch(errorMessage) ==
  IF Includes404(errorMessage)
    THEN Throw(<<"Connection test returned 404. This might be expected for SAP OData base URLs.">>)
    ELSE Throw(ConnectFailedPrefix \o errorMessage)

\* the try/catch around the client call in the eight data handlers
HandlerResult(t, a, out) ==
  IF out.kind = "return"
    THEN Ret([text |-> t, rawData |-> out.value])
    ELSE Throw(FailurePrefix(MethodOf[t], a) \o out.msg)

Pending == [op |-> "none", kind |-> "pending", msg |-> <<>>, value |-> NoData]
Done(op, out) == [pc |-> "idle", tool |-> "none", result |-> [op |-> op] @@ out]

\* method m, called with arguments a on client c for tool t ("none": called
\* directly), has ended with outcome out
Continuation(t, m, c, a, out) ==
  IF t = "none" THEN Done(m, out)
  ELSE IF t = "handleConnect" THEN
    Done(t, IF out.kind = "return"
              THEN Ret([text |-> <<"Successfully connected to SAP OData service:">>])
              ELSE handleConnectCatch(out.msg))
  ELSE IF t = "handleConnectionStatus" THEN
    Done(t, Ret([text |-> IF out.value.bool THEN <<"Status: Connected">>
                                             ELSE <<"Status: Disconnected">>,
                 info |-> getConnectionInfo(c)]))
  ELSE IF m = "isConnected" THEN
    IF ~out.value.bool THEN Done(t, Throw(ConnectionLostMessage))
    ELSE LET r == Invoke(MethodOf[t], c)
         IN IF r.done THEN Done(t, HandlerResult(t, a, r.out))
            ELSE [pc |-> r.pc, tool |-> t, result |-> Pending]
  ELSE Done(t, HandlerResult(t, a, out))

(***************************************************************************)
(* Steps                                                                   *)
(***************************************************************************)
\* method m is called with arguments a on client s of cl, for tool t
Start(t, m, a, s, cl) ==
  LET r == Invoke(m, cl[s])
      k == IF r.done THEN Continuation(t, m, r.client, a, r.out)
           ELSE [pc |-> r.pc, tool |-> t, result |-> Pending]
  IN /\ clients' = [cl EXCEPT ![s] = r.client]
     /\ self' = s
     /\ args' = a
     /\ pc' = k.pc /\ tool' = k.tool /\ result' = k.result
     /\ idx' = 1 /\ found' = <<>>
     /\ req' = NoReq /\ nreq' = 0 /\ lastResp' = NoResp /\ seen401' = FALSE
     /\ lastData' = NoData /\ answered' = {}
     /\ UNCHANGED <<connectArgs, lastConnect>>

\* one request went out and its response came back
Sent(rq, response) ==
  /\ req' = rq
  /\ nreq' = nreq + 1
  /\ lastResp' = response.status
  /\ seen401' = (seen401 \/ response.status = 401)
  /\ lastData' = response.data
  /\ answered' = IF pc = "getServices_common" /\ response.status \in 200..299
                   THEN answered \cup {idx} ELSE answered
  /\ UNCHANGED inflight

\* the running method goes on to its next await
Goto(c, label, i, f) ==
  /\ clients' = [clients EXCEPT ![self] = c]
  /\ pc' = label /\ idx' = i /\ found' = f
  /\ UNCHANGED <<connectArgs, sapClient, tool, self, args, result, lastConnect>>

\* the running method ends
Return(m, c, out) ==
  LET k == Continuation(tool, m, c, args, out)
  IN /\ clients' = [clients EXCEPT ![self] = c]
     /\ pc' = k.pc /\ tool' = k.tool /\ result' = k.result
     /\ idx' = 1 /\ found' = <<>>
     /\ lastConnect' = IF tool # "handleConnect" THEN lastConnect
                        ELSE IF out.kind = "return" THEN "ok" ELSE "failed"
     /\ UNCHANGED <<connectArgs, sapClient, self, args>>

Get(c, url, headers) == RequestInterceptor(c, Request("get", url, headers))

(***************************************************************************)
(* SAPODataClient.connect                                                  *)
(***************************************************************************)
\* connectCatch with a fault: the cookie list is kept
connectCatch_KeepCookies(c, error) ==
  [client |-> [c EXCEPT !.connected = FALSE, !.csrfToken = NULL],
   out |-> Throw(ConnectFailedPrefix \o getErrorMessage(error))]

\* the catch block of connect()
connectCatch(c, error) ==
  [client |-> Cleared(c),
   out |-> Throw(ConnectFailedPrefix \o getErrorMessage(error))]

\* fetchCSRFToken with a fault: the error of a failed fetch is not caught, so
\* that it ends connect() through connect's failure path
fetchCSRFToken_Fatal ==
  /\ pc = "fetchCSRFToken"
  /\ \E response \in PlainResponses :
       LET c == clients[self]
           x == Exchange(c, response)
           failure == connectCatch(x.client, AxiosError(response))
       IN /\ Sent(Get(c, <<>>, ("X-CSRF-Token" :> "Fetch") @@ ("Accept" :> "application/xml")),
                  response)
          /\ IF x.ok
               THEN Goto(x.client, "connect_catalog", 1, <<>>)
               ELSE Return("connect", failure.client, failure.out)

fetchCSRFToken ==
  /\ pc = "fetchCSRFToken"
  /\ \E response \in PlainResponses :
       LET c == clients[self]
           x == Exchange(c, response)
       IN /\ Sent(Get(c, <<>>, ("X-CSRF-Token" :> "Fetch") @@ ("Accept" :> "application/xml")),
                  response)
          /\ Goto(x.client, "connect_catalog", 1, <<>>)

connectCatalog ==
  /\ pc = "connect_catalog"
  /\ \E response \in PlainResponses :
       LET c == clients[self]
           x == Exchange(c, response)
       IN /\ Sent(Get(c, <<catalogPaths[1]>>, ("Accept" :> "application/json")), response)
          /\ IF x.ok
               THEN Return("connect", [x.client EXCEPT !.connected = TRUE], Ret(Void))
               ELSE Goto(x.client, "connect_base", 1, <<>>)

connectBase ==
  /\ pc = "connect_base"
  /\ \E response \in PlainResponses :
       LET c == clients[self]
           x == Exchange(c, response)
           failure ==
             connectCatch(x.client,
               IF response.status = 401
                 THEN Error(<<"Authentication failed - check username/password">>)
               ELSE IF response.status = 403
                 THEN Error(<<"Access forbidden - check user authorizations">>)
               ELSE AxiosError(response))
       IN /\ Sent(Get(c, <<>>, ("Accept" :> "application/xml")), response)
          /\ IF x.ok \/ response.status = 404
               THEN Return("connect", [x.client EXCEPT !.connected = TRUE], Ret(Void))
               ELSE Return("connect", failure.client, failure.out)

(***************************************************************************)
(* SAPODataClient.isConnected                                              *)
(***************************************************************************)
\* isConnected with a fault: a 404 answer counts as a lost connection
StillConnected_Only2xx(ok, status) == ok

\* isConnected: the probe succeeded, or failed with status 404
StillConnected(ok, status) == ok \/ status = 404

\* isConnected with a fault: a failed probe leaves the connected flag as it is
isConnectedProbe_KeepsFlag ==
  /\ pc = "isConnected"
  /\ \E response \in PlainResponses :
       LET c == clients[self]
           x == Exchange(c, response)
       IN /\ Sent(Get(c, <<>>, ("Accept" :> "application/xml")), response)
          /\ Return("isConnected", x.client,
                    Ret([bool |-> StillConnected(x.ok, response.status)]))

isConnectedProbe ==
  /\ pc = "isConnected"
  /\ \E response \in PlainResponses :
       LET c == clients[self]
           x == Exchange(c, response)
       IN /\ Sent(Get(c, <<>>, ("Accept" :> "application/xml")), response)
          /\ IF StillConnected(x.ok, response.status)
               THEN Return("isConnected", x.client, Ret([bool |-> TRUE]))
               ELSE Return("isConnected", [x.client EXCEPT !.connected = FALSE],
                           Ret([bool |-> FALSE]))

(***************************************************************************)
(* SAPODataClient.getServices                                              *)
(***************************************************************************)
getServicesCatalog ==
  /\ pc = "getServices_catalog"
  /\ \E response \in CatalogResponses :
       LET c == clients[self]
           x == Exchange(c, response)
           data == response.data
       IN /\ Sent(Get(c, <<catalogPaths[idx]>>, ("Accept" :> "application/json")), response)
          /\ IF x.ok /\ Has(data, "d") /\ Has(data["d"], "results")
               THEN Return("getServices", x.client,
                      Ret([services |-> CatalogServices(data),
                           source |-> "gateway_catalog",
                           catalogUrl |-> catalogPaths[idx]]))
             ELSE IF idx < Len(catalogPaths)
               THEN Goto(x.client, "getServices_catalog", idx + 1, <<>>)
             ELSE Goto(x.client, "getServices_common", 1, <<>>)

\* getServices with a fault: the well-known names are probed only until one
\* of them answers
getServicesCommon_StopAtFirst ==
  /\ pc = "getServices_common"
  /\ \E response \in PlainResponses :
       LET c == clients[self]
           x == Exchange(c, response)
           foundServices ==
             IF x.ok THEN Append(found, FoundService(commonServices[idx])) ELSE found
       IN /\ Sent(Get(c, <<commonServices[idx], "/">>, ("Accept" :> "application/xml")),
                  response)
          /\ IF idx < Len(commonServices) /\ ~x.ok
               THEN Goto(x.client, "getServices_common", idx + 1, foundServices)
             ELSE IF Len(foundServices) > 0
               THEN Return("getServices", x.client,
                      Ret([services |-> foundServices, source |-> "common_services_test"]))
             ELSE Return("getServices", x.client,
                      Ret([services |-> <<>>, source |-> "none_found",
                           message |-> NoneFoundMessage]))

getServicesCommon ==
  /\ pc = "getServices_common"
  /\ \E response \in PlainResponses :
       LET c == clients[self]
           x == Exchange(c, response)
           foundServices ==
             IF x.ok THEN Append(found, FoundService(commonServices[idx])) ELSE found
       IN /\ Sent(Get(c, <<commonServices[idx], "/">>, ("Accept" :> "application/xml")),
                  response)
          /\ IF idx < Len(commonServices)
               THEN Goto(x.client, "getServices_common", idx + 1, foundServices)
             ELSE IF Len(foundServices) > 0
               THEN Return("getServices", x.client,
                      Ret([services |-> foundServices, source |-> "common_services_test"]))
             ELSE Return("getServices", x.client,
                      Ret([services |-> <<>>, source |-> "none_found",
                           message |-> NoneFoundMessage]))

(***************************************************************************)
(* SAPODataClient: metadata and data operations, one request each          *)
(***************************************************************************)
\* the catch block shared by the single-request methods
Rethrow(m, error) == Throw(FailurePrefix(m, args) \o getErrorMessage(error))

getServiceMetadataResponse ==
  /\ pc = "getServiceMetadata"
  /\ \E response \in MetadataResponses :
       LET c == clients[self]
           x == Exchange(c, response)
       IN /\ Sent(Get(c, args.serviceName \o <<"/", "$metadata">>,
                      ("Accept" :> "application/xml")), response)
          /\ Return("getServiceMetadata", x.client,
               IF ~x.ok THEN Rethrow("getServiceMetadata", AxiosError(response))
               ELSE IF ~response.data.wellFormed
                 THEN Rethrow("getServiceMetadata", Error(<<"Non-whitespace before first tag.">>))
               ELSE Ret(extractMetadata(response.data.parsed)))

queryEntitySetResponse ==
  /\ pc = "queryEntitySet"
  /\ \E response \in DataResponses :
       LET c == clients[self]
           x == Exchange(c, response)
       IN /\ Sent(Get(c, queryEntitySetUrl(args.serviceName, args.entitySet, args.options),
                      <<>>), response)
          /\ Return("queryEntitySet", x.client,
               IF x.ok THEN Ret(response.data)
               ELSE Rethrow("queryEntitySet", AxiosError(response)))

getEntityResponse ==
  /\ pc = "getEntity"
  /\ \E response \in DataResponses :
       LET c == clients[self]
           x == Exchange(c, response)
       IN /\ Sent(Get(c, entityUrl(args.serviceName, args.entitySet, args.keyValues), <<>>),
                  response)
          /\ Return("getEntity", x.client,
               IF x.ok THEN Ret(response.data)
               ELSE Rethrow("getEntity", AxiosError(response)))

createEntityResponse ==
  /\ pc = "createEntity"
  /\ \E response \in DataResponses :
       LET c == clients[self]
           x == Exchange(c, response)
       IN /\ Sent(RequestInterceptor(c,
                    Request("post", args.serviceName \o <<"/">> \o args.entitySet, <<>>)),
                  response)
          /\ Return("createEntity", x.client,
               IF x.ok THEN Ret(response.data)
               ELSE Rethrow("createEntity", AxiosError(response)))

updateEntityResponse ==
  /\ pc = "updateEntity"
  /\ \E response \in DataResponses :
       LET c == clients[self]
           x == Exchange(c, response)
       IN /\ Sent(RequestInterceptor(c,
                    Request("put", entityUrl(args.serviceName, args.entitySet, args.keyValues),
                            <<>>)),
                  response)
          /\ Return("updateEntity", x.client,
               IF x.ok THEN Ret(response.data)
               ELSE Rethrow("updateEntity", AxiosError(response)))

deleteEntityResponse ==
  /\ pc = "deleteEntity"
  /\ \E response \in PlainResponses :
       LET c == clients[self]
           x == Exchange(c, response)
       IN /\ Sent(RequestInterceptor(c,
                    Request("delete", entityUrl(args.serviceName, args.entitySet, args.keyValues),
                            <<>>)),
                  response)
          /\ Return("deleteEntity", x.client,
               IF x.ok THEN Ret(Void)
               ELSE Rethrow("deleteEntity", AxiosError(response)))

callFunctionResponse ==
  /\ pc = "callFunction"
  /\ \E response \in DataResponses :
       LET c == clients[self]
           x == Exchange(c, response)
       IN /\ Sent(Get(c, callFunctionUrl(args.serviceName, args.functionName, args.parameters),
                      <<>>), response)
          /\ Return("callFunction", x.client,
               IF x.ok THEN Ret(response.data)
               ELSE Rethrow("callFunction", AxiosError(response)))

\* every await of the client: a response arrives and the method runs on
Responses ==
  \/ fetchCSRFToken
  \/ connectCatalog
  \/ connectBase
  \/ isConnectedProbe
  \/ getServicesCatalog
  \/ getServicesCommon
  \/ getServiceMetadataResponse
  \/ queryEntitySetResponse
  \/ getEntityResponse
  \/ createEntityResponse
  \/ updateEntityResponse
  \/ deleteEntityResponse
  \/ callFunctionResponse

(***************************************************************************)
(* Calls of the client's methods, one at a time, on one client             *)
(***************************************************************************)
MetadataArgs == {[serviceName |-> sn] : sn \in ServiceNames}
QueryArgs ==
  {[serviceName |-> sn, entitySet |-> es, options |-> o] :
     sn \in ServiceNames, es \in EntitySets, o \in QueryOptions}
KeyArgs ==
  {[serviceName |-> sn, entitySet |-> es, keyValues |-> kv, data |-> d] :
     sn \in ServiceNames, es \in EntitySets, kv \in KeyValues, d \in EntityData}
FunctionArgs ==
  {[serviceName |-> sn, functionName |-> fn, parameters |-> ps] :
     sn \in ServiceNames, fn \in FunctionNames, ps \in FunctionParameters}

\* the client is constructed and used by the caller itself: there is no
\* SAPODataHandlers instance, hence no sapClient field
NoHandlers == 0 - 1

Call(m, a) ==
  /\ sapClient = NoHandlers
  /\ pc = "idle"
  /\ Start("none", m, a, self, clients)
  /\ UNCHANGED <<sapClient, inflight>>

connect == Call("connect", NoArgs)
disconnect == Call("disconnect", NoArgs)
isConnected == Call("isConnected", NoArgs)
connectionInfo == Call("getConnectionInfo", NoArgs)
getServices == Call("getServices", NoArgs)
getServiceMetadata == \E a \in MetadataArgs : Call("getServiceMetadata", a)
queryEntitySet == \E a \in QueryArgs : Call("queryEntitySet", a)
getEntity == \E a \in KeyArgs : Call("getEntity", a)
createEntity == \E a \in KeyArgs : Call("createEntity", a)
updateEntity == \E a \in KeyArgs : Call("updateEntity", a)
deleteEntity == \E a \in KeyArgs : Call("deleteEntity", a)
callFunction == \E a \in FunctionArgs : Call("callFunction", a)

NoResult == [op |-> "none", kind |-> "none", msg |-> <<>>, value |-> NoData]

\* no call overlaps the running one
NoneInFlight == [phase |-> "none"]

Init ==
  /\ connectArgs \in ConnectArgs
  /\ clients = <<SAPODataClient(SAPODataConfigSchema(connectArgs).value)>>
  /\ sapClient = NoHandlers
  /\ self = 1
  /\ tool = "none"
  /\ pc = "idle"
  /\ args = NoArgs
  /\ idx = 1
  /\ found = <<>>
  /\ req = NoReq
  /\ nreq = 0
  /\ seen401 = FALSE
  /\ lastResp = NoResp
  /\ lastData = NoData
  /\ answered = {}
  /\ result = NoResult
  /\ lastConnect = "none"
  /\ inflight = NoneInFlight

Next ==
  \/ connect
  \/ disconnect
  \/ isConnected
  \/ connectionInfo
  \/ getServices
  \/ getServiceMetadata
  \/ queryEntitySet
  \/ getEntity
  \/ createEntity
  \/ updateEntity
  \/ deleteEntity
  \/ callFunction
  \/ Responses

Spec == Init /\ [][Next]_vars

(***************************************************************************)
(* SAPODataHandlers: tool calls, one at a time, on one handler instance    *)
(***************************************************************************)
\* a handler returns or throws without awaiting anything
Immediate(t, a, cl, out) ==
  /\ clients' = cl
  /\ args' = a
  /\ pc' = "idle" /\ tool' = "none" /\ result' = [op |-> t] @@ out
  /\ idx' = 1 /\ found' = <<>>
  /\ req' = NoReq /\ nreq' = 0 /\ lastResp' = NoResp /\ seen401' = FALSE
  /\ lastData' = NoData /\ answered' = {}
  /\ lastConnect' = IF t = "handleConnect" THEN "failed" ELSE lastConnect
  /\ UNCHANGED <<connectArgs, self>>

\* DisconnectExisting with a fault: the existing client is left as it is
DisconnectExisting_Skip(cl, sc) == cl

\* handleConnect, before anything else: if (this.sapClient) this.sapClient.disconnect()
DisconnectExisting(cl, sc) ==
  IF sc # 0 THEN [cl EXCEPT ![sc] = Invoke("disconnect", @).client] ELSE cl

\* handleConnect with a fault: the arguments are validated before the existing
\* client is disconnected, so that a validation failure leaves it as it was
handleConnect_ValidatesFirst ==
  /\ sapClient # NoHandlers
  /\ pc = "idle"
  /\ UNCHANGED inflight
  /\ \E a \in {connectArgs, WithoutPassword(connectArgs)} :
       LET closed == DisconnectExisting(clients, sapClient)
           config == SAPODataConfigSchema(a)
       IN IF config.kind = "throw"
            THEN /\ Immediate("handleConnect", a, clients, handleConnectCatch(config.msg))
                 /\ UNCHANGED sapClient
            ELSE /\ Len(clients) < MaxClients
                 /\ sapClient' = Len(clients) + 1
                 /\ Start("handleConnect", "connect", a, Len(clients) + 1,
                          Append(closed, SAPODataClient(config.value)))

handleConnect ==
  /\ sapClient # NoHandlers
  /\ pc = "idle"
  /\ UNCHANGED inflight
  /\ \E a \in {connectArgs, WithoutPassword(connectArgs)} :
       LET closed == DisconnectExisting(clients, sapClient)
           config == SAPODataConfigSchema(a)
       IN IF config.kind = "throw"
            THEN /\ Immediate("handleConnect", a, closed, handleConnectCatch(config.msg))
                 /\ UNCHANGED sapClient
            ELSE /\ Len(clients) < MaxClients
                 /\ sapClient' = Len(clients) + 1
                 /\ Start("handleConnect", "connect", a, Len(clients) + 1,
                          Append(closed, SAPODataClient(config.value)))

\* the eight data handlers: ensureConnected, isConnected, then the client call
HandleData(t, a) ==
  /\ sapClient # NoHandlers
  /\ pc = "idle"
  /\ UNCHANGED inflight
  /\ IF sapClient = 0
       THEN Immediate(t, a, clients, Throw(NotConnectedMessage))
       ELSE Start(t, "isConnected", a, sapClient, clients)
  /\ UNCHANGED sapClient

handleGetServices == HandleData("handleGetServices", NoArgs)
handleGetServiceMetadata == \E a \in MetadataArgs : HandleData("handleGetServiceMetadata", a)
handleQueryEntitySet == \E a \in QueryArgs : HandleData("handleQueryEntitySet", a)
handleGetEntity == \E a \in KeyArgs : HandleData("handleGetEntity", a)
handleCreateEntity == \E a \in KeyArgs : HandleData("handleCreateEntity", a)
handleUpdateEntity == \E a \in KeyArgs : HandleData("handleUpdateEntity", a)
handleDeleteEntity == \E a \in KeyArgs : HandleData("handleDeleteEntity", a)
handleCallFunction == \E a \in FunctionArgs : HandleData("handleCallFunction", a)

handleConnectionStatus ==
  /\ sapClient # NoHandlers
  /\ pc = "idle"
  /\ UNCHANGED inflight
  /\ IF sapClient = 0
       THEN Immediate("handleConnectionStatus", NoArgs, clients,
                      Ret([text |-> <<"No SAP OData connection established. Use sap_connect to connect to an SAP OData service.">>]))
       ELSE Start("handleConnectionStatus", "isConnected", NoArgs, sapClient, clients)
  /\ UNCHANGED sapClient

handleDisconnect ==
  /\ sapClient # NoHandlers
  /\ pc = "idle"
  /\ UNCHANGED inflight
  /\ IF sapClient # 0
       THEN /\ Immediate("handleDisconnect", NoArgs,
                         [clients EXCEPT ![sapClient] = Invoke("disconnect", @).client],
                         Ret([text |-> <<"Successfully disconnected from SAP OData service">>]))
            /\ sapClient' = 0
       ELSE /\ Immediate("handleDisconnect", NoArgs, clients,
                         Ret([text |-> <<"No active SAP OData connection to disconnect">>]))
            /\ UNCHANGED sapClient

HandlerInit ==
  /\ connectArgs \in ConnectArgs
  /\ clients = <<>>
  /\ sapClient = 0
  /\ self = 0
  /\ tool = "none"
  /\ pc = "idle"
  /\ args = NoArgs
  /\ idx = 1
  /\ found = <<>>
  /\ req = NoReq
  /\ nreq = 0
  /\ seen401 = FALSE
  /\ lastResp = NoResp
  /\ lastData = NoData
  /\ answered = {}
  /\ result = NoResult
  /\ lastConnect = "none"
  /\ inflight = NoneInFlight

HandlerNext ==
  \/ handleConnect
  \/ handleGetServices
  \/ handleGetServiceMetadata
  \/ handleQueryEntitySet
  \/ handleGetEntity
  \/ handleCreateEntity
  \/ handleUpdateEntity
  \/ handleDeleteEntity
  \/ handleCallFunction
  \/ handleConnectionStatus
  \/ handleDisconnect
  \/ Responses

HandlerSpec == HandlerInit /\ [][HandlerNext]_vars

(***************************************************************************)
(* Either use of the program: the client called directly by its owner, or  *)
(* the tool handlers called by a server                                    *)
(***************************************************************************)
ApiInit == Init \/ HandlerInit
ApiNext == Next \/ HandlerNext
ApiSpec == ApiInit /\ [][ApiNext]_vars

(***************************************************************************)
(* Overlapping calls on one client: a queryEntitySet call is suspended at  *)
(* its await while the owner of the client calls disconnect() and          *)
(* connect(); nothing in the client serialises them                        *)
(***************************************************************************)
RaceQueryArgs == {a \in QueryArgs : a.options = ("none" :> TRUE)}

\* disconnect() or connect() has been called since the request was sent
Overtaken(f) == IF f.phase = "sent" THEN [f EXCEPT !.overtaken = TRUE] ELSE f

\* queryEntitySet called while another call may be suspended: ensureConnected,
\* then the request goes out through the request interceptor
overlappedQueryEntitySet ==
  /\ sapClient = NoHandlers
  /\ inflight.phase # "sent"
  /\ \E a \in RaceQueryArgs :
       LET c == clients[self]
       IN inflight' =
            IF ~ensureConnected(c)
              THEN [phase |-> "threw", msg |-> NotConnectedMessage]
              ELSE [phase |-> "sent",
                    req |-> Get(c, queryEntitySetUrl(a.serviceName, a.entitySet, a.options),
                                <<>>),
                    overtaken |-> FALSE]
  /\ UNCHANGED <<connectArgs, clients, sapClient, tool, pc, self, args, idx, found, req,
                 nreq, seen401, lastResp, lastData, answered, result, lastConnect>>

\* the response with a fault: it is dropped when disconnect() or connect() was
\* called after its request was sent
lateResponse_DroppedWhenOvertaken ==
  /\ inflight.phase = "sent"
  /\ \E response \in DataResponses :
       /\ clients' = [clients EXCEPT ![self] =
                        IF inflight.overtaken THEN @ ELSE Exchange(@, response).client]
       /\ inflight' = [phase |-> "answered", status |-> response.status,
                       headers |-> response.headers, overtaken |-> inflight.overtaken]
  /\ UNCHANGED <<connectArgs, sapClient, tool, pc, self, args, idx, found, req,
                 nreq, seen401, lastResp, lastData, answered, result, lastConnect>>

\* the response to the overlapping request arrives: the response interceptors
\* run on the client as it is then
lateResponse ==
  /\ inflight.phase = "sent"
  /\ \E response \in DataResponses :
       /\ clients' = [clients EXCEPT ![self] = Exchange(@, response).client]
       /\ inflight' = [phase |-> "answered", status |-> response.status,
                       headers |-> response.headers, overtaken |-> inflight.overtaken]
  /\ UNCHANGED <<connectArgs, sapClient, tool, pc, self, args, idx, found, req,
                 nreq, seen401, lastResp, lastData, answered, result, lastConnect>>

\* disconnect() and connect() called by the owner while the query may be in flight
RaceCall(m) ==
  /\ sapClient = NoHandlers
  /\ pc = "idle"
  /\ Start("none", m, NoArgs, self, clients)
  /\ inflight' = Overtaken(inflight)
  /\ UNCHANGED sapClient

raceConnect == RaceCall("connect")
raceDisconnect == RaceCall("disconnect")

RaceInit == Init

RaceNext ==
  \/ raceConnect
  \/ raceDisconnect
  \/ overlappedQueryEntitySet
  \/ lateResponse
  \/ fetchCSRFToken
  \/ connectCatalog
  \/ connectBase

RaceSpec == RaceInit /\ [][RaceNext]_vars

(***************************************************************************)
(* Properties                                                              *)
(***************************************************************************)
SessionCleared(c) == ~c.connected /\ c.csrfToken = NULL /\ c.cookies = <<>>

Success(status) == status \in 200..299

\* a call made directly on the client has just ended
Ended(m) == pc = "idle" /\ tool = "none" /\ result.op = m

\* this step is the call of isConnected() on the client, made right after a
\* connect() on it has returned
IsConnectedCalledAfterConnect ==
  /\ Ended("connect") /\ result.kind = "return"
  /\ \/ pc' = "isConnected"
     \/ pc' = "idle" /\ result'.op = "isConnected"

\* this step is the answer to the probe of an isConnected() called directly
IsConnectedAnswered == pc = "isConnected" /\ tool = "none" /\ pc' = "idle"

\* C1 (as amended): after connect() has returned successfully, the next
\* isConnected() sends its probe (it does not return false at once), and it
\* returns true, leaving the client connected, whenever that probe is answered
\* with a 2xx status or with HTTP 404; on any other answer it returns false
\* and leaves connected=false.
C1_IsConnectedAfterConnect ==
  [][ /\ IsConnectedCalledAfterConnect => pc' = "isConnected"
      /\ IsConnectedAnswered =>
           /\ nreq' = 1
           /\ result'.op = "isConnected" /\ result'.kind = "return"
           /\ result'.value.bool = (Success(lastResp') \/ lastResp' = 404)
           /\ clients'[self].connected = result'.value.bool ]_vars

\* C1, witness: isConnected() has returned true on a probe answered with 404
C1_Witness ==
  /\ Ended("isConnected") /\ result.value.bool
  /\ lastResp = 404 /\ nreq = 1
  /\ clients[self].connected

\* C1 as stated: after connect() has returned successfully, the next
\* isConnected() returns true, whatever status a backend that accepts the
\* credentials (no 401, no 403) answers its probe with.
C1_Original ==
  [][ /\ IsConnectedCalledAfterConnect => pc' = "isConnected"
      /\ (IsConnectedAnswered /\ lastResp' \in Statuses \ {401, 403}) =>
           result'.value.bool ]_vars

\* the answer that ended connect() was not accepted: it came from the bare
\* base-path probe and was neither a 2xx nor a 404
ConnectProbesFailed == Ended("connect") /\ ~(Success(lastResp) \/ lastResp = 404)

\* C2: whenever connect() fails, whatever the cause, it throws and the client
\* ends with connected=false, csrfToken=null and no cookies; when the base-path
\* probe was answered 401 the error is the authentication-failed one.
C2_ConnectFailureClears ==
  /\ ConnectProbesFailed => result.kind = "throw"
  /\ (Ended("connect") /\ result.kind = "throw") =>
       /\ SessionCleared(clients[self])
       /\ Len(result.msg) > Len(ConnectFailedPrefix)
       /\ SubSeq(result.msg, 1, Len(ConnectFailedPrefix)) = ConnectFailedPrefix
       /\ lastResp = 401 =>
            result.msg = ConnectFailedPrefix
                           \o <<"Authentication failed - check username/password">>

\* C2, witness: connect() has failed on a 403 after an earlier response of the
\* same connect() had stored a cookie, which the failed probe still carried
C2_Witness ==
  /\ Ended("connect") /\ result.kind = "throw"
  /\ lastResp = 403 /\ nreq = 3
  /\ Has(req.headers, "Cookie")

AuthenticatedOps ==
  {"getServices", "getServiceMetadata", "queryEntitySet", "getEntity", "createEntity",
   "updateEntity", "deleteEntity", "callFunction", "isConnected"}

\* an authenticated operation called directly has ended, and one of its
\* requests had been answered 401
EndedAfter401 == pc = "idle" /\ tool = "none" /\ result.op \in AuthenticatedOps /\ seen401

\* this step is a direct call of a discovery, metadata or data operation
DataCall ==
  /\ pc = "idle" /\ sapClient = NoHandlers
  /\ \/ pc' \in {FirstAwait[m] : m \in DataMethods}
     \/ pc' = "idle" /\ result'.op \in DataMethods

NotConnectedOutcome(r) == r.kind = "throw" /\ r.msg = NotConnectedMessage

\* C3 as stated: when an authenticated operation one of whose requests was
\* answered 401 ends, the session state is cleared, and the data operation
\* called next fails with the not-connected error without sending a request.
C3_Claim ==
  [][ /\ EndedAfter401' => SessionCleared(clients'[self'])
      /\ (EndedAfter401 /\ DataCall) =>
           /\ pc' = "idle" /\ NotConnectedOutcome(result') /\ nreq' = 0 ]_vars

\* this step is the answer to a request
Answered == nreq' = nreq + 1

\* C4 (as amended): a 401 answer clears the whole session state in whichever
\* operation it is received; a 403 answer clears it only when it makes
\* connect() fail; as the answer to the probe of isConnected() it resets the
\* connected flag alone, and anywhere else it changes nothing of the session.
C4_SessionClearedOn401 ==
  [][ Answered =>
        /\ lastResp' = 401 => SessionCleared(clients'[self])
        /\ lastResp' = 403 =>
             clients'[self] =
               IF pc = "connect_base"
                 THEN [clients[self] EXCEPT !.connected = FALSE, !.csrfToken = NULL,
                                            !.cookies = <<>>]
               ELSE IF pc = "isConnected"
                 THEN [clients[self] EXCEPT !.connected = FALSE]
               ELSE clients[self] ]_vars

\* C4, witness: a request that carried the session's cookie was answered 401
\* in the middle of getServices
C4_Witness ==
  /\ lastResp = 401 /\ Has(req.headers, "Cookie")
  /\ pc = "getServices_common"
  /\ SessionCleared(clients[self])

\* C4 as stated: after a 401 or a 403 answer, in whichever operation, the
\* session state is cleared.
C4_Original == lastResp \in {401, 403} => SessionCleared(clients[self])

\* C5: the handler's clients other than the current one are disconnected, at
\* every point, so at most one of them is connected; in particular the client
\* that handleConnect replaces is disconnected before the new client sends
\* its first request.
C5_OneClientConnected ==
  /\ \A i \in 1..Len(clients) : i # sapClient => SessionCleared(clients[i])
  /\ Cardinality({i \in 1..Len(clients) : clients[i].connected}) <= 1
  /\ (tool = "handleConnect" /\ pc # "idle") =>
       /\ self = sapClient
       /\ \A i \in 1..Len(clients) : i # self => ~clients[i].connected

\* C5, witness: a second client, created by handleConnect in place of the
\* first, is connected
C5_Witness ==
  /\ Len(clients) = 2 /\ sapClient = 2
  /\ clients[2].connected
  /\ result.op = "handleConnect" /\ result.kind = "return"

\* this step is a call of one of the eight data tools
DataToolCall ==
  /\ pc = "idle" /\ sapClient # NoHandlers
  /\ \/ tool' \in DataTools
     \/ pc' = "idle" /\ result'.op \in DataTools

\* C6: a discovery, metadata or data operation called on a client with
\* connected=false throws the not-connected error, sends no request and leaves
\* the client as it was; a data tool called on a handler that has no client
\* throws the same error.
C6_NotConnected ==
  [][ /\ (DataCall /\ ~clients[self].connected) =>
           /\ pc' = "idle" /\ NotConnectedOutcome(result') /\ nreq' = 0
           /\ clients' = clients
      /\ (DataToolCall /\ sapClient = 0) =>
           /\ pc' = "idle" /\ NotConnectedOutcome(result') /\ nreq' = 0
           /\ clients' = clients /\ sapClient' = 0 ]_vars

\* C6, witness: a data operation has failed with the not-connected error on a
\* client that is disconnected and still holds a token
C6_Witness ==
  /\ pc = "idle" /\ result.op \in DataMethods
  /\ NotConnectedOutcome(result) /\ nreq = 0
  /\ ~clients[self].connected /\ clients[self].csrfToken # NULL

\* the last answer was a catalog answer carrying a results array
CatalogHit ==
  /\ pc = "idle" /\ Success(lastResp) /\ Has(lastData, "d") /\ Has(lastData["d"], "results")

\* the well-known names at the positions of S, from position n on, in list order
RECURSIVE NamesAt(_, _)
NamesAt(S, n) ==
  IF n > Len(commonServices) THEN <<>>
  ELSE (IF n \in S THEN <<commonServices[n]>> ELSE <<>>) \o NamesAt(S, n + 1)

\* C7: when a catalog path answers with a results array of n records,
\* getServices returns n descriptors, the i-th made from the i-th record,
\* tagged gateway_catalog; when no catalog path does and k >= 1 of the
\* well-known names answer their probe, it returns exactly those k names in
\* list order, tagged common_services_test.
C7_ServicesOfFirstStrategy ==
  Ended("getServices") /\ nreq > 0 =>
    /\ CatalogHit =>
         /\ result.kind = "return"
         /\ result.value.source = "gateway_catalog"
         /\ Len(result.value.services) = Len(lastData["d"]["results"])
         /\ \A i \in 1..Len(lastData["d"]["results"]) :
              /\ result.value.services[i].name = lastData["d"]["results"][i].ID
              /\ result.value.services[i] = ServiceDescriptor(lastData["d"]["results"][i])
    /\ (~CatalogHit /\ answered # {}) =>
         /\ result.kind = "return"
         /\ result.value.source = "common_services_test"
         /\ nreq = Len(catalogPaths) + Len(commonServices)
         /\ Len(result.value.services) = Cardinality(answered)
         /\ [i \in 1..Len(result.value.services) |-> result.value.services[i].name]
              = NamesAt(answered, 1)

\* C7, witness: the third catalog path answered with two different records
C7_Witness ==
  /\ Ended("getServices") /\ CatalogHit /\ nreq = 3
  /\ Len(result.value.services) = 2
  /\ result.value.services[1].name # result.value.services[2].name

\* C8 (as amended): every result of getServices carries one of the three
\* source tags; an empty list is returned either tagged gateway_catalog, when
\* a catalog path answered with an empty results array (no message, no probe
\* of a well-known name), or tagged none_found with a non-empty message, when
\* no catalog path gave a results array and no well-known name answered its
\* probe.
C8_EmptyServices ==
  (Ended("getServices") /\ result.kind = "return") =>
    /\ Has(result.value, "source")
    /\ result.value.source \in {"gateway_catalog", "common_services_test", "none_found"}
    /\ result.value.source = "none_found" <=> (~CatalogHit /\ answered = {})
    /\ result.value.services = <<>> =>
         \/ /\ result.value.source = "gateway_catalog"
            /\ CatalogHit /\ lastData["d"]["results"] = <<>>
            /\ ~Has(result.value, "message")
            /\ nreq <= Len(catalogPaths)
         \/ /\ result.value.source = "none_found"
            /\ Has(result.value, "message") /\ result.value.message # <<>>
            /\ nreq = Len(catalogPaths) + Len(commonServices)

\* C8, witness: an empty list tagged gateway_catalog
C8_Witness ==
  /\ Ended("getServices") /\ result.kind = "return"
  /\ result.value.services = <<>>
  /\ result.value.source = "gateway_catalog"

\* C8 as stated: every result carries a source tag, and an empty list is
\* returned only tagged none_found, with a non-empty message, when neither
\* strategy yielded a service.
C8_Original ==
  (Ended("getServices") /\ result.kind = "return") =>
    /\ Has(result.value, "source")
    /\ result.value.services = <<>> =>
         /\ result.value.source = "none_found"
         /\ Has(result.value, "message") /\ result.value.message # <<>>

\* C9: disconnect() returns, never throws, sends nothing and leaves the client
\* with connected=false, csrfToken=null and no cookies, from whatever state it
\* is called in (so a second call leaves that state as it is); handleDisconnect
\* returns a text, never throws, and leaves the handler without a client.
C9_DisconnectIdempotent ==
  /\ (pc = "idle" /\ result.op = "disconnect") =>
       /\ result.kind = "return" /\ nreq = 0
       /\ SessionCleared(clients[self])
  /\ (pc = "idle" /\ result.op = "handleDisconnect") =>
       /\ result.kind = "return" /\ Has(result.value, "text") /\ nreq = 0
       /\ sapClient = 0
       /\ \A i \in 1..Len(clients) : SessionCleared(clients[i])

\* C9, witness: handleDisconnect was called on a handler whose client had
\* already been released
C9_Witness ==
  /\ pc = "idle" /\ result.op = "handleDisconnect"
  /\ result.value.text = <<"No active SAP OData connection to disconnect">>
  /\ Len(clients) > 0

Top5Filter == ("top" :> 5) @@ ("filter" :> PriceGt10)

\* queryEntitySet was called with only top=5 and filter="Price gt 10" and its
\* request has gone out
QueriedTop5Filter ==
  /\ Ended("queryEntitySet") /\ nreq = 1
  /\ args.options = Top5Filter

\* C10 (as amended): queryEntitySet called with only top=5 and
\* filter="Price gt 10" requests serviceName/entitySet followed by the query
\* string %24filter=Price+gt+10&%24top=5: filter before top, form-urlencoded,
\* nothing from the absent options.
C10_QueryString ==
  QueriedTop5Filter =>
    /\ req.method = "get"
    /\ req.url = args.serviceName \o <<"/">> \o args.entitySet \o <<"?">>
         \o <<"%", "2", "4", "f", "i", "l", "t", "e", "r", "=",
              "P", "r", "i", "c", "e", "+", "g", "t", "+", "1", "0", "&",
              "%", "2", "4", "t", "o", "p", "=", "5">>

\* C10, witness: such a query has been answered
C10_Witness == QueriedTop5Filter /\ result.kind = "return"

\* C10 as stated: the query string is $top=5&$filter=Price%20gt%2010.
C10_Original ==
  QueriedTop5Filter =>
    req.url = args.serviceName \o <<"/">> \o args.entitySet \o <<"?">>
      \o <<"$", "t", "o", "p", "=", "5", "&",
           "$", "f", "i", "l", "t", "e", "r", "=",
           "P", "r", "i", "c", "e", "%", "2", "0", "g", "t", "%", "2", "0", "1", "0">>

ID42 == << << <<"I", "D">>, <<"4", "2">> >> >>
TwoKeys == << << <<"I", "D">>, <<"A", " ", "1">> >>, << <<"K">>, <<"x", "/", "y">> >> >>

\* the key predicate of each key map: ID='42' and ID='A%201',K='x%2Fy'
KeyPredicate(keyValues) ==
  IF keyValues = ID42
    THEN <<"I", "D", "=", "'", "4", "2", "'">>
    ELSE <<"I", "D", "=", "'", "A", "%", "2", "0", "1", "'", ",",
           "K", "=", "'", "x", "%", "2", "F", "y", "'">>

KeyedOps == {"getEntity", "updateEntity", "deleteEntity"}

\* C11: getEntity, updateEntity and deleteEntity request the same URL for the
\* same key map: serviceName/entitySet followed, in parentheses, by the
\* entries in order, each as Key='value' with the value URL-encoded, joined
\* by commas; for {ID: "42"} that is ID='42'.
C11_KeyPredicate ==
  (pc = "idle" /\ tool = "none" /\ result.op \in KeyedOps /\ nreq = 1) =>
    /\ args.keyValues \in {ID42, TwoKeys}
    /\ req.url = args.serviceName \o <<"/">> \o args.entitySet
                   \o <<"(">> \o KeyPredicate(args.keyValues) \o <<")">>
    /\ req.method = (CASE result.op = "getEntity" -> "get"
                       [] result.op = "updateEntity" -> "put"
                       [] result.op = "deleteEntity" -> "delete")

\* C11, witness: updateEntity has sent its request for a map of two keys whose
\* values need encoding
C11_Witness ==
  /\ Ended("updateEntity") /\ nreq = 1
  /\ args.keyValues = TwoKeys
  /\ req.method = "put"

\* the properties of the entity types of a parsed metadata document
DocProperties(doc, i) == doc.parsed["Schema"]["EntityType"][i]["Property"]

\* getServiceMetadata has returned the model of a document with entity types
\* that have properties
ReturnedEntities ==
  /\ Ended("getServiceMetadata") /\ result.kind = "return"
  /\ Len(result.value.entities) > 0

\* C12: in the model returned by getServiceMetadata a property is
\* nullable=false exactly when its Nullable attribute is the string "false";
\* with any other value, or without the attribute, it is nullable=true.
C12_Nullable ==
  ReturnedEntities =>
    \A i \in 1..Len(result.value.entities) :
      /\ Len(result.value.entities[i].properties) = Len(DocProperties(lastData, i))
      /\ \A j \in 1..Len(DocProperties(lastData, i)) :
           LET attrs == DocProperties(lastData, i)[j]["$"]
           IN result.value.entities[i].properties[j].nullable
                = ~("Nullable" \in DOMAIN attrs /\ attrs["Nullable"] = "false")

\* C12, witness: a model whose first entity has a property that is not
\* nullable, one without the attribute, and two with other values
C12_Witness ==
  /\ ReturnedEntities
  /\ Len(result.value.entities[1].properties) = 4
  /\ ~result.value.entities[1].properties[1].nullable
  /\ result.value.entities[1].properties[2].nullable
  /\ result.value.entities[1].properties[4].nullable

\* the document has the structure extractMetadata reads: the parser accepts
\* it, the Schema node exists and every entity type has its attributes
Structured(doc) ==
  /\ doc.wellFormed
  /\ "Schema" \in DOMAIN doc.parsed
  /\ \A i \in 1..Len(doc.parsed["Schema"]["EntityType"]) :
       "$" \in DOMAIN doc.parsed["Schema"]["EntityType"][i]

MetadataFetched ==
  Ended("getServiceMetadata") /\ nreq = 1 /\ Success(lastResp)

\* C13: when the metadata document is fetched successfully but cannot be
\* parsed (the parser rejects it, or the parsed tree lacks the expected
\* structure), getServiceMetadata does not throw: it returns a model with
\* empty entities and empty functions.
C13_Claim ==
  (MetadataFetched /\ ~Structured(lastData)) =>
    /\ result.kind = "return"
    /\ result.value.entities = <<>>
    /\ result.value.functions = <<>>

\* the probe whose answer is the last response is one that connect() accepts:
\* a 2xx on the catalog path, or a 2xx or a 404 on the base path
ProbeAccepted ==
  \/ req.url = <<"../iwfnd/catalogservice;v=2/ServiceCollection">> /\ Success(lastResp)
  \/ req.url = <<>> /\ (Success(lastResp) \/ lastResp = 404)

\* C14: a failure of the token fetch in connect() (an error status or no
\* response) never makes connect() fail: whatever the answer to the fetch,
\* connect() goes on to the catalog probe, and whether it succeeds is decided
\* by the probes alone; an accepted probe ends it with connected=true.
C14_TokenFetchFailureTolerated ==
  [][ /\ (pc = "fetchCSRFToken" /\ tool = "none") =>
            (pc' = "connect_catalog" /\ result'.kind = "pending")
      /\ (pc \in {"connect_catalog", "connect_base"} /\ tool = "none") =>
            /\ pc' = "idle" =>
                 /\ (result'.kind = "return") = ProbeAccepted'
                 /\ ProbeAccepted' => clients'[self].connected
            /\ pc' # "idle" => ~ProbeAccepted'
    ]_vars

\* C14, witness: connect() has succeeded on its catalog probe after its token
\* fetch was answered with a 401
C14_Witness ==
  /\ Ended("connect") /\ result.kind = "return"
  /\ clients[self].config.enableCSRF
  /\ nreq = 2 /\ seen401
  /\ Success(lastResp)
  /\ clients[self].connected

\* this step is a call of isConnected() made directly on a client
IsConnectedCalled ==
  /\ pc = "idle" /\ tool' = "none"
  /\ \/ pc' = "isConnected"
     \/ pc' = "idle" /\ result'.op = "isConnected"

\* this step is the answer to the probe of an isConnected() called directly
ProbeAnswered == pc = "isConnected" /\ tool = "none"

ReturnsFalse(r) == r.op = "isConnected" /\ r.kind = "return" /\ r.value = [bool |-> FALSE]

\* C16 (as amended): a call of isConnected() made while connected=true sends
\* exactly one probe, a GET of the base path, before it returns; a call made
\* while connected=false returns false at once, sends no request and changes
\* nothing in the client.
C16_ProbeOnlyWhenConnected ==
  [][ /\ IsConnectedCalled =>
           /\ nreq' = 0
           /\ IF clients[self'].connected
                THEN pc' = "isConnected" /\ result'.kind = "pending"
                ELSE pc' = "idle" /\ ReturnsFalse(result') /\ clients' = clients
      /\ ProbeAnswered =>
           /\ nreq' = 1
           /\ req'.method = "get" /\ req'.url = <<>>
           /\ pc' = "idle" /\ result'.op = "isConnected"
    ]_vars

\* C16, witness: isConnected() has returned false on a client that is not
\* connected, without a request
C16_Witness ==
  /\ Ended("isConnected") /\ ReturnsFalse(result)
  /\ nreq = 0 /\ req = NoReq
  /\ ~clients[self].connected

\* C16 (as stated): every call of isConnected(), in every client state, sends
\* one probe GET before returning.
C16_Original == Ended("isConnected") => (nreq = 1 /\ req.method = "get")

\* C17: isConnected() returns true exactly when connected was true at the call
\* and the probe was answered with a success status or with 404, and then
\* connected stays true; in every other case (another status, no response, or
\* not connected at the call) it returns false and connected is false
\* afterwards.
C17_IsConnectedResult ==
  [][ /\ (IsConnectedCalled /\ ~clients[self'].connected) =>
           (ReturnsFalse(result') /\ ~clients'[self'].connected)
      /\ ProbeAnswered =>
           /\ clients[self].connected
           /\ result'.kind = "return"
           /\ result'.value.bool = (Success(lastResp') \/ lastResp' = 404)
           /\ clients'[self].connected = result'.value.bool
    ]_vars

\* C17, witness: the probe was answered with a 403 while a token was held;
\* isConnected() has returned false and the client is no longer connected
C17_Witness ==
  /\ Ended("isConnected") /\ ReturnsFalse(result)
  /\ nreq = 1 /\ lastResp = 403
  /\ ~clients[self].connected
  /\ clients[self].csrfToken # NULL

\* the request sent in this step carries the token the client held
CarriesStoredToken ==
  /\ "X-CSRF-Token" \in DOMAIN req'.headers
  /\ req'.headers["X-CSRF-Token"] = clients[self].csrfToken

\* C18: on every outgoing request the stored token is attached as the
\* X-CSRF-Token header exactly when a token is held and the method is not GET
\* (the only X-CSRF-Token header on a GET is the "Fetch" of the token fetch),
\* and the stored cookies are attached as one Cookie header, joined by "; ",
\* exactly when the cookie list is not empty.
C18_RequestHeaders ==
  [][ Answered =>
        /\ CarriesStoredToken = (clients[self].csrfToken # NULL /\ req'.method # "get")
        /\ ("X-CSRF-Token" \in DOMAIN req'.headers /\ ~CarriesStoredToken) =>
             (req'.headers["X-CSRF-Token"] = "Fetch" /\ pc = "fetchCSRFToken")
        /\ ("Cookie" \in DOMAIN req'.headers) = (clients[self].cookies # <<>>)
        /\ clients[self].cookies = <<"sid=1", "lang=en">> =>
             req'.headers["Cookie"] = <<"sid=1", "; ", "lang=en">>
        /\ clients[self].cookies \in {<<>>, <<"sid=1", "lang=en">>}
    ]_vars

\* C18, witness: a POST was sent while a token and cookies were held and
\* carries both
C18_Witness ==
  /\ req.method = "post"
  /\ "X-CSRF-Token" \in DOMAIN req.headers /\ req.headers["X-CSRF-Token"] \in Tokens
  /\ "Cookie" \in DOMAIN req.headers
  /\ req.headers["Cookie"] = <<"sid=1", "; ", "lang=en">>

\* the token of client c once the response interceptors have handled response
TokenAfter(c, response) == Exchange(c, response).client.csrfToken

\* C19: on every incoming response that carries a CSRF-token header with value
\* v, whatever the HTTP status: if v is not "Required" the client's token
\* becomes v, and if v is "Required" the token is left unchanged; hence the
\* stored token is never "Required".  Stated for each response that can
\* answer the request in flight.
C19_Claim ==
  /\ pc # "idle" =>
       \A response \in PlainResponses :
         "x-csrf-token" \in DOMAIN response.headers =>
           TokenAfter(clients[self], response) =
             (IF response.headers["x-csrf-token"] # "Required"
                THEN response.headers["x-csrf-token"]
                ELSE clients[self].csrfToken)
  /\ \A i \in DOMAIN clients : clients[i].csrfToken # "Required"

\* the URLs of the discovery candidates, in the order of the source
Candidates ==
  << <<"../iwfnd/catalogservice;v=2/ServiceCollection">>,
     <<"../IWFND/CATALOGSERVICE;v=2/ServiceCollection">>,
     <<"../iwfnd/catalogservice/ServiceCollection">>,
     <<"../IWFND/CATALOGSERVICE/ServiceCollection">>,
     <<"GWSAMPLE_BASIC", "/">>, <<"GWDEMO", "/">>, <<"RMTSAMPLEFLIGHT", "/">>,
     <<"API_MATERIAL_SRV", "/">>, <<"API_BUSINESS_PARTNER", "/">>,
     <<"API_SALES_ORDER_SRV", "/">>, <<"ZMM_MATERIAL_SRV", "/">>,
     <<"ZSD_SALES_SRV", "/">>, <<"ZFI_GL_SRV", "/">> >>

\* the number of catalog path variants
NCatalog == Len(catalogPaths)

InGetServices == pc \in {"getServices_catalog", "getServices_common"} /\ tool = "none"

\* the answer received in this step is a 2xx carrying a results array
YieldsResults ==
  Success(lastResp') /\ Has(lastData', "d") /\ Has(lastData'["d"], "results")

\* C20 (as amended): within one getServices call the candidates are requested
\* one after another in list order, the k-th request being the k-th candidate
\* and sent when the answer to the one before it has been handled.  A catalog
\* path is requested only if no earlier catalog path answered with a results
\* array, and the call ends at the first that does; the well-known names are
\* requested only if no catalog path did; all nine names are then probed,
\* each whatever the answers to the names before it.
C20_SequentialDiscovery ==
  [][ InGetServices =>
        /\ nreq' = nreq + 1
        /\ nreq' \in 1..Len(Candidates)
        /\ req'.method = "get" /\ req'.url = Candidates[nreq']
        /\ nreq' <= NCatalog => ((pc' = "idle") = YieldsResults)
        /\ (nreq' > NCatalog /\ nreq' < Len(Candidates)) => pc' = "getServices_common"
        /\ nreq' = Len(Candidates) => pc' = "idle"
        /\ pc' = "idle" => result'.op = "getServices"
    ]_vars

\* C20, witness: the second well-known name has been requested although the
\* first had answered its probe
C20_Witness ==
  /\ pc = "getServices_common" /\ tool = "none"
  /\ nreq = NCatalog + 2
  /\ req.url = <<"GWDEMO", "/">>
  /\ 1 \in answered

\* C20 (as stated): the candidates are requested one after another, and a
\* candidate is requested only if every earlier candidate failed: when the
\* n-th well-known name has been requested, none of the names before it has
\* answered its probe.
C20_Original ==
  ((InGetServices \/ Ended("getServices")) /\ nreq > 0) =>
    /\ req.url = Candidates[nreq]
    /\ nreq > NCatalog => answered \cap (1..(nreq - NCatalog - 1)) = {}

\* the response to the overlapping request arrives in this step
LateArrival == inflight.phase = "sent" /\ inflight'.phase = "answered"

\* C21: when calls on one client overlap, the response to a request sent
\* before disconnect() or connect() that arrives afterwards is handled like
\* any other: a 2xx response writes its CSRF token and its cookies into the
\* session state and leaves the connected flag as it is, so that the client
\* can hold a token and cookies while connected=false.
C21_LateResponseWrites ==
  [][ LateArrival =>
        LET h == inflight'.headers
            before == clients[self]
            after == clients'[self]
        IN IF Success(inflight'.status)
             THEN /\ after.csrfToken =
                       (IF "x-csrf-token" \in DOMAIN h /\ h["x-csrf-token"] # "Required"
                          THEN h["x-csrf-token"] ELSE before.csrfToken)
                  /\ after.cookies =
                       (IF "set-cookie" \in DOMAIN h
                          THEN <<"sid=1", "lang=en">> ELSE before.cookies)
                  /\ after.connected = before.connected
           ELSE IF inflight'.status = 401 THEN SessionCleared(after)
           ELSE after = before
    ]_vars

\* C21, witness: disconnect() has returned, then the response to the query
\* sent before it has arrived: the client is not connected and holds the
\* token and the cookies of that response
C21_Witness ==
  /\ Ended("disconnect")
  /\ inflight.phase = "answered" /\ inflight.overtaken
  /\ Success(inflight.status)
  /\ "x-csrf-token" \in DOMAIN inflight.headers
  /\ ~clients[self].connected
  /\ clients[self].csrfToken = inflight.headers["x-csrf-token"]
  /\ clients[self].cookies = <<"sid=1", "lang=en">>

\* t occurs in s as a contiguous piece
Contains(s, t) ==
  \E i \in 0..(Len(s) - Len(t)) : \A j \in 1..Len(t) : s[i + j] = t[j]

OptionNames == {"select", "filter", "orderby", "top", "skip", "expand"}

\* the $-name of an option as it is written in a query string, up to the "="
WireName(k) ==
  <<"%", "2", "4">>
    \o (CASE k = "select" -> <<"s", "e", "l", "e", "c", "t">>
          [] k = "filter" -> <<"f", "i", "l", "t", "e", "r">>
          [] k = "orderby" -> <<"o", "r", "d", "e", "r", "b", "y">>
          [] k = "top" -> <<"t", "o", "p">>
          [] k = "skip" -> <<"s", "k", "i", "p">>
          [] k = "expand" -> <<"e", "x", "p", "a", "n", "d">>)
    \o <<"=">>

\* C22: queryEntitySet puts a query parameter on the wire for an option
\* exactly when the option is present in QueryOptions: every option the caller
\* supplies (top=0, skip=0, an empty filter and an empty select list included)
\* appears under its $-name, and no parameter appears for an absent option.
C22_Claim ==
  (Ended("queryEntitySet") /\ nreq = 1) =>
    \A k \in OptionNames :
      Contains(req.url, WireName(k)) = (k \in DOMAIN args.options)

\* C23: in every state in which no operation is in progress, a client with
\* connected=false holds no token and no cookies, so that getConnectionInfo
\* never reports hasCSRFToken=true together with connected=false.
C23_Claim ==
  pc = "idle" =>
    /\ \A i \in DOMAIN clients :
         ~clients[i].connected =>
           (clients[i].csrfToken = NULL /\ clients[i].cookies = <<>>)
    /\ (result.op = "getConnectionInfo" /\ result.kind = "return") =>
         ~(result.value.hasCSRFToken /\ ~result.value.connected)

\* C24: once a request of a getServices call has been answered with a 401,
\* the call sends no further request and does not return a normal result:
\* getServices returns a service list only if connected is still true.
C24_Claim ==
  /\ (pc \in {"getServices_catalog", "getServices_common"}) => ~seen401
  /\ (Ended("getServices") /\ result.kind = "return") =>
       (~seen401 /\ clients[self].connected)

NoClientConnected(cl) == \A i \in DOMAIN cl : ~cl[i].connected

\* C25: after a handleConnect call that failed, on the validation of its
\* arguments or inside connect(), no client is connected, and every data tool
\* call fails at once, without any HTTP request, until a later handleConnect
\* succeeds; this holds whether or not a session was active before.
C25_FailedConnectLeavesNoSession ==
  [][ /\ lastConnect' = "failed" => (pc' # "idle" \/ NoClientConnected(clients'))
      /\ (lastConnect = "failed" /\ DataToolCall) =>
           /\ pc' = "idle" /\ result'.op \in DataTools
           /\ result'.kind = "throw"
           /\ result'.msg \in {NotConnectedMessage, ConnectionLostMessage}
           /\ nreq' = 0 /\ req' = NoReq
           /\ lastConnect' = "failed"
      /\ (lastConnect = "failed" /\ lastConnect' # "failed") =>
           (result'.op = "handleConnect" /\ result'.kind = "return")
    ]_vars

\* C25, witness: a second handleConnect has failed, and the query tool called
\* after it has failed without a request
C25_Witness ==
  /\ lastConnect = "failed"
  /\ Len(clients) = 2
  /\ pc = "idle" /\ result.op = "handleQueryEntitySet"
  /\ result.kind = "throw" /\ result.msg = ConnectionLostMessage
  /\ nreq = 0

\* C26: on a client configured with enableCSRF=false no CSRF token is ever
\* stored and no request carries an X-CSRF-Token header, whatever headers the
\* responses carry.
C26_Claim ==
  \A i \in DOMAIN clients :
    ~clients[i].config.enableCSRF =>
      /\ clients[i].csrfToken = NULL
      /\ (self = i /\ nreq > 0) => ~("X-CSRF-Token" \in DOMAIN req.headers)

====
